---------------------------- MODULE Spec2Model ----------------------------
(***************************************************************************)
(* A model of televoice_identification.py: the Result classification      *)
(* (Result.filename, matched_golden_ptn, mrd, result_type), the golden-    *)
(* pattern cache protocol of read_golden_ptns and the temporary-file       *)
(* lifecycle of televoice_identify.                                        *)
(*                                                                         *)
(* Python strings that the code slices or joins are sequences of           *)
(* one-character strings; a dict is a sequence of <<key, value>> pairs in  *)
(* insertion order with pairwise distinct keys.                            *)
(***************************************************************************)
EXTENDS Integers, Sequences, FiniteSets, TLC

\* ------------------------------------------------------------------ bounds

\* The largest number of entries of a ScoreMap handed to a Result.
MaxRefs == 3

\* ------------------------------------------------------------ path strings

Slash == "/"

\* Index of the last "/" of s, 0 when there is none (s.rfind("/") + 1).
RECURSIVE LastSlash(_, _)
LastSlash(s, i) ==
    IF i = 0 THEN 0
    ELSE IF s[i] = Slash THEN i ELSE LastSlash(s, i - 1)

\* os.path.basename: what follows the last "/".
basename(p) == SubSeq(p, LastSlash(p, Len(p)) + 1, Len(p))

\* os.path.join(a, b) for a relative b and a non-empty a without trailing "/".
join(a, b) == a \o <<Slash>> \o b

\* The slice s[:n].
Prefix(s, n) == SubSeq(s, 1, IF Len(s) < n THEN Len(s) ELSE n)

\* str(b) of a Python bool.
PyStr(b) == IF b THEN "True" ELSE "False"

\* str.upper() on the strings the code applies it to.
Upper(s) ==
    CASE s = "True" -> "TRUE"
      [] s = "False" -> "FALSE"
      [] OTHER -> s

\* ------------------------------------------------------------------- dicts

Keys(d) == {d[i][1] : i \in 1..Len(d)}

Values(d) == {d[i][2] : i \in 1..Len(d)}

\* d[k] = v: the value is replaced in place, a new key is appended.
Put(d, k, v) ==
    IF k \in Keys(d)
    THEN [i \in 1..Len(d) |-> IF d[i][1] = k THEN <<k, v>> ELSE d[i]]
    ELSE Append(d, <<k, v>>)

\* min(values) and max(values) of a non-empty collection of numbers.
PyMin(S) == CHOOSE x \in S : \A y \in S : x <= y

PyMax(S) == CHOOSE x \in S : \A y \in S : x >= y

\* A mutant of MinKey: min(d), without key=d.get, here the first key.
MinKeyNoValue(d) == d[1][1]

\* min(d, key=d.get): the first key, in iteration order, whose value no other
\* key's value is below.
MinKey(d) ==
    LET i == CHOOSE j \in 1..Len(d) :
                 /\ \A k \in 1..Len(d) : d[j][2] <= d[k][2]
                 /\ \A k \in 1..(j - 1) : d[k][2] > d[j][2]
    IN d[i][1]

\* ------------------------------------------------------------ class Result

\* Result.filename
filename(r) == basename(r.filepath)

\* Result.matched_golden_ptn
matched_golden_ptn(r) == <<MinKey(r.diff_indice), PyMin(Values(r.diff_indice))>>

\* A mutant of mrd: the largest score, nothing subtracted.
mrd_max(r) == PyMax(Values(r.diff_indice))

\* Result.mrd
mrd(r) == PyMax(Values(r.diff_indice)) - PyMin(Values(r.diff_indice))

\* A mutant of result_type: the margin test is <= 2000.
result_type_inclusive(r) ==
    IF mrd(r) <= 2000 /\ matched_golden_ptn(r)[2] > 2000
    THEN "TYPICAL"
    ELSE Upper(PyStr(Prefix(filename(r), 2) = Prefix(matched_golden_ptn(r)[1], 2)))

\* A mutant of result_type: one character of each name is compared.
result_type_one_char(r) ==
    IF mrd(r) < 2000 /\ matched_golden_ptn(r)[2] > 2000
    THEN "TYPICAL"
    ELSE Upper(PyStr(Prefix(filename(r), 1) = Prefix(matched_golden_ptn(r)[1], 1)))

\* Result.result_type
result_type(r) ==
    IF mrd(r) < 2000 /\ matched_golden_ptn(r)[2] > 2000
    THEN "TYPICAL"
    ELSE Upper(PyStr(Prefix(filename(r), 2) = Prefix(matched_golden_ptn(r)[1], 2)))


\* ------------------------------------------------------- external functions

\* python_speech_features.mfcc(sig, rate, appendEnergy=False): a
\* deterministic function of the samples.  Samples are numbered from 1, so
\* no waveform has the fingerprint 0, the array of zeros.
mfcc(sig) == sig + 10

\* ------------------------------------------------------------------ pickle

\* A pickle stream is a sequence of chunks <<tag, key, value>>: the protocol
\* header, then per dict item the key (with the opcodes that rebuild the
\* array) and the array's raw sample bytes, then the STOP opcode.  "ZERO" is
\* a run of zero bytes, which a file holds where nothing was written below
\* its length.
NoKey == <<>>

Chunk(tag, k, v) == <<tag, k, v>>

HdrChunk == Chunk("HDR", NoKey, 0)

StopChunk == Chunk("STOP", NoKey, 0)

ZeroChunk == Chunk("ZERO", NoKey, 0)

RECURSIVE DumpItems(_)
DumpItems(d) ==
    IF d = <<>> THEN <<>>
    ELSE <<Chunk("KEY", Head(d)[1], 0), Chunk("DATA", NoKey, Head(d)[2])>>
         \o DumpItems(Tail(d))

\* The bytes pickle.dump(golden_ptns, pfile, protocol=HIGHEST_PROTOCOL) writes.
PickleDumps(d) == <<HdrChunk>> \o DumpItems(d) \o <<StopChunk>>

\* pickle.load on the bytes b, read from chunk i on with the items acc read
\* so far.  Zero bytes in place of an opcode are an invalid load key; zero
\* bytes in place of an array's raw bytes are the bytes of an all-zero array;
\* running out of bytes before STOP is a truncated pickle.
RECURSIVE LoadItems(_, _, _)
LoadItems(b, i, acc) ==
    IF i > Len(b) THEN [exc |-> "UnpicklingError", value |-> <<>>]
    ELSE IF b[i][1] = "STOP" THEN [exc |-> "", value |-> acc]
    ELSE IF b[i][1] # "KEY" THEN [exc |-> "UnpicklingError", value |-> <<>>]
    ELSE IF i + 1 > Len(b) THEN [exc |-> "UnpicklingError", value |-> <<>>]
    ELSE IF b[i + 1][1] = "DATA"
         THEN LoadItems(b, i + 2, Put(acc, b[i][2], b[i + 1][3]))
    ELSE IF b[i + 1][1] = "ZERO"
         THEN LoadItems(b, i + 2, Put(acc, b[i][2], 0))
    ELSE [exc |-> "UnpicklingError", value |-> <<>>]

\* pickle.load(pfile) of a file holding the bytes b: the exception raised
\* ("" for none) and the object returned.
PickleLoads(b) ==
    IF b = <<>> THEN [exc |-> "EOFError", value |-> <<>>]
    ELSE IF b[1][1] # "HDR" THEN [exc |-> "UnpicklingError", value |-> <<>>]
    ELSE LoadItems(b, 2, <<>>)

\* pfile.write(c) at offset pos of a file holding the bytes b: the bytes
\* between the file's end and pos, if any, read as zeros.
WriteAt(b, pos, c) ==
    [i \in 1..(IF pos + 1 > Len(b) THEN pos + 1 ELSE Len(b)) |->
        IF i = pos + 1 THEN c
        ELSE IF i <= Len(b) THEN b[i]
        ELSE ZeroChunk]

\* --------------------------------------------------------- golden patterns

\* Index of the last "." of s that follows its first character, 0 when there
\* is none.
RECURSIVE LastDot(_, _)
LastDot(s, i) ==
    IF i <= 1 THEN 0
    ELSE IF s[i] = "." THEN i ELSE LastDot(s, i - 1)

\* A file name without its extension (os.path.splitext(name)[0]).
StripExt(name) ==
    IF LastDot(name, Len(name)) = 0 THEN name
    ELSE SubSeq(name, 1, LastDot(name, Len(name)) - 1)

\* A mutant of BuildPtns: the items are keyed by the name without extension.
RECURSIVE BuildPtnsStem(_, _, _)
BuildPtnsStem(folderpath, es, acc) ==
    IF es = <<>> THEN acc
    ELSE IF ~Head(es).isfile THEN BuildPtnsStem(folderpath, Tail(es), acc)
    ELSE BuildPtnsStem(folderpath, Tail(es),
                       Put(acc, StripExt(basename(join(folderpath, Head(es).name))),
                           mfcc(Head(es).sig)))

\* A mutant of BuildPtns: no isfile test, every directory entry gets an item.
RECURSIVE BuildPtnsNoIsfile(_, _, _)
BuildPtnsNoIsfile(folderpath, es, acc) ==
    IF es = <<>> THEN acc
    ELSE BuildPtnsNoIsfile(folderpath, Tail(es),
                           Put(acc, basename(join(folderpath, Head(es).name)),
                               mfcc(Head(es).sig)))

\* The dict the loop of read_golden_ptns builds from the directory entries
\* es (os.listdir order): one item per regular file, keyed by its basename.
RECURSIVE BuildPtns(_, _, _)
BuildPtns(folderpath, es, acc) ==
    IF es = <<>> THEN acc
    ELSE IF ~Head(es).isfile THEN BuildPtns(folderpath, Tail(es), acc)
    ELSE BuildPtns(folderpath, Tail(es),
                   Put(acc, basename(join(folderpath, Head(es).name)),
                       mfcc(Head(es).sig)))

\* Whether scipy.io.wavfile.read raises on some regular file of es.
WavReadFails(es) == \E i \in 1..Len(es) : es[i].isfile /\ ~es[i].wav


\* ------------------------------------------------------------------- state

Procs == {1, 2, 3}

\* The processes that run televoice_identify in Spec.
IdentProcs == {1, 2}

\* The largest number of calls (of televoice_identify or of read_golden_ptns)
\* begun in one run.
MaxCalls == 3

VARIABLES
    robj,          \* a Result object: [filepath, diff_indice]
    seen,          \* the properties read from robj so far
    golden_wav,    \* the directory golden_wav: [exists, entries]
    pickle_file,   \* temp/golden_ptns.pickle: [exists, data]
    temp_files,    \* the other files of temp/: path -> [exists, sig, call]
    ffmpeg,        \* whether the ffmpeg executable is on the PATH
    pc,            \* where each process stands
    entry,         \* the function each process was asked to run
    filepath,      \* televoice_identify's argument
    golden_ptns,   \* the dict read_golden_ptns holds or has returned
    how,           \* how read_golden_ptns returned: "load" or "build"
    pos,           \* the offset of pfile, opened 'wb'
    warnings,      \* the warnings read_golden_ptns printed in this call
    tmp_filepath,  \* televoice_identify's tmp_filepath
    wave,          \* what wav.read(tmp_filepath) returned: [sig, call]
    result,        \* the Result televoice_identify returns
    exc,           \* the exception that ended the call, "" for none
    call,          \* the number of the call each process is in
    calls,         \* the calls begun so far
    io             \* reads of golden_wav so far: [listdir, wavread]

resVars == <<robj, seen>>

fsVars == <<golden_wav, pickle_file, temp_files, ffmpeg>>

storeVars == <<golden_ptns, how, pos, warnings>>

idVars == <<filepath, tmp_filepath, wave, result>>

vars == <<robj, seen, golden_wav, pickle_file, temp_files, ffmpeg, pc, entry,
          filepath, golden_ptns, how, pos, warnings, tmp_filepath, wave,
          result, exc, call, calls, io>>

\* ------------------------------------------------------------ environment

Str_golden_wav == <<"g", "o", "l", "d", "e", "n", "_", "w", "a", "v">>

Str_temp == <<"t", "e", "m", "p">>

Str_tmp == <<".", "t", "m", "p">>

A1wav == <<"A", "1", ".", "w", "a", "v">>

B1wav == <<"B", "1", ".", "w", "a", "v">>

Sub == <<"s", "u", "b">>

Ntxt == <<"n", ".", "t", "x", "t">>

\* A directory entry: a regular file or not, a readable WAV file or not, and
\* the samples it holds.
DirEntry(n, f, w, s) == [name |-> n, isfile |-> f, wav |-> w, sig |-> s]

\* golden_wav with two reference recordings and a subdirectory.
GoodDir ==
    [exists |-> TRUE,
     entries |-> <<DirEntry(A1wav, TRUE, TRUE, 1), DirEntry(Sub, FALSE, FALSE, 0),
                   DirEntry(B1wav, TRUE, TRUE, 2)>>]

\* golden_wav with a regular file that is no WAV file.
BadDir ==
    [exists |-> TRUE,
     entries |-> <<DirEntry(A1wav, TRUE, TRUE, 1), DirEntry(Ntxt, TRUE, FALSE, 0)>>]

EmptyDir == [exists |-> TRUE, entries |-> <<>>]

MissingDir == [exists |-> FALSE, entries |-> <<>>]

Dirs == {GoodDir, BadDir, EmptyDir, MissingDir}

NoFile == [exists |-> FALSE, data |-> <<>>, denied |-> FALSE]

File(b) == [exists |-> TRUE, data |-> b, denied |-> FALSE]

\* A cache file that open(..., 'rb') is refused on (PermissionError).
DeniedFile(b) == [exists |-> TRUE, data |-> b, denied |-> TRUE]

\* The cache files a run may start with, given the directory: none, a
\* zero-byte file, a pickle the process may not open, and, when the directory
\* can be read, the pickle of its patterns and a proper prefix of that pickle
\* (a writer that was killed).
InitPickles(dir) ==
    {NoFile, File(<<>>), DeniedFile(PickleDumps(<<>>))}
    \cup (IF dir.exists /\ ~WavReadFails(dir.entries)
          THEN LET full == PickleDumps(BuildPtns(Str_golden_wav, dir.entries, <<>>))
               IN {File(full), File(SubSeq(full, 1, Len(full) \div 2))}
          ELSE {})


\* --------------------------------------------------------- read_golden_ptns

\* A call may begin in a process that is in none.
CanCall(p) == pc[p] \in {"idle", "returned", "raised"} /\ calls < MaxCalls

\* The locals of a call that begins in p.
BeginCall(p, fn, path) ==
    /\ pc' = [pc EXCEPT ![p] = "open_rb"]
    /\ entry' = [entry EXCEPT ![p] = fn]
    /\ filepath' = [filepath EXCEPT ![p] = path]
    /\ golden_ptns' = [golden_ptns EXCEPT ![p] = <<>>]
    /\ how' = [how EXCEPT ![p] = ""]
    /\ pos' = [pos EXCEPT ![p] = 0]
    /\ warnings' = [warnings EXCEPT ![p] = {}]
    /\ tmp_filepath' = [tmp_filepath EXCEPT ![p] = <<>>]
    /\ wave' = [wave EXCEPT ![p] = [sig |-> 0, call |-> 0]]
    /\ result' = [result EXCEPT ![p] = [filepath |-> <<>>, diff_indice |-> <<>>]]
    /\ exc' = [exc EXCEPT ![p] = ""]
    /\ call' = [call EXCEPT ![p] = calls + 1]
    /\ calls' = calls + 1

\* read_golden_ptns(folderpath) called on its own.
CallReadGoldenPtns(p) ==
    /\ CanCall(p)
    /\ BeginCall(p, "read_golden_ptns", <<>>)
    /\ UNCHANGED <<resVars, fsVars, io>>

\* Where p goes on when read_golden_ptns returns.
AfterRead(p) == IF entry[p] = "televoice_identify" THEN "ffmpeg" ELSE "returned"

\* A mutant of OpenMissing: the handler that builds is entered whether or not
\* the file exists.
OpenAlwaysBuilds(p) ==
    /\ pc[p] = "open_rb"
    /\ pc' = [pc EXCEPT ![p] = "listdir"]
    /\ UNCHANGED <<resVars, fsVars, entry, storeVars, idVars, exc, call, calls, io>>

\* open(..., 'rb') raises FileNotFoundError: on to the handler that builds.
OpenMissing(p) ==
    /\ pc[p] = "open_rb"
    /\ ~pickle_file.exists
    /\ pc' = [pc EXCEPT ![p] = "listdir"]
    /\ UNCHANGED <<resVars, fsVars, entry, storeVars, idVars, exc, call, calls, io>>

\* A mutant of OpenDenied: the error is handled as EOFError is, by a retry.
OpenDeniedRetries(p) ==
    /\ pc[p] = "open_rb"
    /\ pickle_file.exists
    /\ pickle_file.denied
    /\ pc' = [pc EXCEPT ![p] = "except_eof"]
    /\ UNCHANGED <<resVars, fsVars, entry, storeVars, idVars, exc, call, calls, io>>

\* open(..., 'rb') raises an OSError that is no FileNotFoundError: no except
\* clause matches and it propagates out of read_golden_ptns.
OpenDenied(p) ==
    /\ pc[p] = "open_rb"
    /\ pickle_file.exists
    /\ pickle_file.denied
    /\ pc' = [pc EXCEPT ![p] = "raised"]
    /\ exc' = [exc EXCEPT ![p] = "PermissionError"]
    /\ UNCHANGED <<resVars, fsVars, entry, storeVars, idVars, call, calls, io>>

\* open(..., 'rb') and pickle.load succeed: return the pickle's object.
LoadReturn(p) ==
    /\ pc[p] = "open_rb"
    /\ pickle_file.exists
    /\ ~pickle_file.denied
    /\ PickleLoads(pickle_file.data).exc = ""
    /\ golden_ptns' = [golden_ptns EXCEPT ![p] = PickleLoads(pickle_file.data).value]
    /\ how' = [how EXCEPT ![p] = "load"]
    /\ pc' = [pc EXCEPT ![p] = AfterRead(p)]
    /\ UNCHANGED <<resVars, fsVars, entry, pos, warnings, idVars, exc, call, calls, io>>

\* pickle.load raises EOFError: on to its handler.
LoadEOFError(p) ==
    /\ pc[p] = "open_rb"
    /\ pickle_file.exists
    /\ ~pickle_file.denied
    /\ PickleLoads(pickle_file.data).exc = "EOFError"
    /\ pc' = [pc EXCEPT ![p] = "except_eof"]
    /\ UNCHANGED <<resVars, fsVars, entry, storeVars, idVars, exc, call, calls, io>>

\* pickle.load raises pickle.UnpicklingError: on to its handler.
LoadUnpicklingError(p) ==
    /\ pc[p] = "open_rb"
    /\ pickle_file.exists
    /\ ~pickle_file.denied
    /\ PickleLoads(pickle_file.data).exc = "UnpicklingError"
    /\ pc' = [pc EXCEPT ![p] = "except_unpickling"]
    /\ UNCHANGED <<resVars, fsVars, entry, storeVars, idVars, exc, call, calls, io>>

\* A mutant of RetryEOF: the handler goes on to rebuild the library.
RetryEOFRebuilds(p) ==
    /\ pc[p] = "except_eof"
    /\ warnings' = [warnings EXCEPT ![p] = @ \cup {"is empty"}]
    /\ pc' = [pc EXCEPT ![p] = "listdir"]
    /\ UNCHANGED <<resVars, fsVars, entry, golden_ptns, how, pos, idVars, exc, call,
                   calls, io>>

\* except EOFError: print the warning and continue the while loop.
RetryEOF(p) ==
    /\ pc[p] = "except_eof"
    /\ warnings' = [warnings EXCEPT ![p] = @ \cup {"is empty"}]
    /\ pc' = [pc EXCEPT ![p] = "open_rb"]
    /\ UNCHANGED <<resVars, fsVars, entry, golden_ptns, how, pos, idVars, exc, call,
                   calls, io>>

\* except pickle.UnpicklingError: print the warning and continue.
RetryUnpickling(p) ==
    /\ pc[p] = "except_unpickling"
    /\ warnings' = [warnings EXCEPT ![p] = @ \cup {"UnpicklingError"}]
    /\ pc' = [pc EXCEPT ![p] = "open_rb"]
    /\ UNCHANGED <<resVars, fsVars, entry, golden_ptns, how, pos, idVars, exc, call,
                   calls, io>>

\* The number of regular files wav.read is called on before it raises, or
\* all of them when it does not.
RECURSIVE WavReads(_)
WavReads(es) ==
    IF es = <<>> THEN 0
    ELSE IF ~Head(es).isfile THEN WavReads(Tail(es))
    ELSE IF ~Head(es).wav THEN 1
    ELSE 1 + WavReads(Tail(es))

\* os.listdir raises FileNotFoundError inside the handler: it propagates.
BuildNoDir(p) ==
    /\ pc[p] = "listdir"
    /\ ~golden_wav.exists
    /\ pc' = [pc EXCEPT ![p] = "raised"]
    /\ exc' = [exc EXCEPT ![p] = "FileNotFoundError"]
    /\ io' = [io EXCEPT !.listdir = @ + 1]
    /\ UNCHANGED <<resVars, fsVars, entry, storeVars, idVars, call, calls>>

\* A mutant of BuildBadWav: the cache file is opened 'wb' before the
\* reference files are read, so the failure leaves it with zero bytes.
BuildBadWavAfterOpen(p) ==
    /\ pc[p] = "listdir"
    /\ golden_wav.exists
    /\ WavReadFails(golden_wav.entries)
    /\ pickle_file' = File(<<>>)
    /\ pc' = [pc EXCEPT ![p] = "raised"]
    /\ exc' = [exc EXCEPT ![p] = "ValueError"]
    /\ io' = [listdir |-> io.listdir + 1,
              wavread |-> io.wavread + WavReads(golden_wav.entries)]
    /\ UNCHANGED <<resVars, golden_wav, temp_files, ffmpeg, entry, storeVars, idVars,
                   call, calls>>

\* wav.read raises on a regular file that is no WAV file: it propagates.
BuildBadWav(p) ==
    /\ pc[p] = "listdir"
    /\ golden_wav.exists
    /\ WavReadFails(golden_wav.entries)
    /\ pc' = [pc EXCEPT ![p] = "raised"]
    /\ exc' = [exc EXCEPT ![p] = "ValueError"]
    /\ io' = [listdir |-> io.listdir + 1,
              wavread |-> io.wavread + WavReads(golden_wav.entries)]
    /\ UNCHANGED <<resVars, fsVars, entry, storeVars, idVars, call, calls>>

\* The directory is listed and a pattern extracted from every regular file.
Build(p) ==
    /\ pc[p] = "listdir"
    /\ golden_wav.exists
    /\ ~WavReadFails(golden_wav.entries)
    /\ golden_ptns' = [golden_ptns EXCEPT
                          ![p] = BuildPtns(Str_golden_wav, golden_wav.entries, <<>>)]
    /\ pc' = [pc EXCEPT ![p] = "open_wb"]
    /\ io' = [listdir |-> io.listdir + 1,
              wavread |-> io.wavread + WavReads(golden_wav.entries)]
    /\ UNCHANGED <<resVars, fsVars, entry, how, pos, warnings, idVars, exc, call, calls>>

\* open(..., 'wb'): the file is created, or truncated to no bytes.
OpenWb(p) ==
    /\ pc[p] = "open_wb"
    /\ pickle_file' = File(<<>>)
    /\ pos' = [pos EXCEPT ![p] = 0]
    /\ pc' = [pc EXCEPT ![p] = "dump"]
    /\ UNCHANGED <<resVars, golden_wav, temp_files, ffmpeg, entry, golden_ptns, how,
                   warnings, idVars, exc, call, calls, io>>

\* A mutant of DumpWrite: the STOP opcode that ends the pickle is not written.
DumpWriteNoStop(p) ==
    LET c == PickleDumps(golden_ptns[p])[pos[p] + 1]
    IN IF c = StopChunk THEN pickle_file.data ELSE WriteAt(pickle_file.data, pos[p], c)

\* The file after p's next write of pickle.dump: the next part of the
\* pickle, at the offset of p's own file object.
DumpWrite(p) == WriteAt(pickle_file.data, pos[p], PickleDumps(golden_ptns[p])[pos[p] + 1])

\* pickle.dump writes the next part of the pickle.
Dump(p) ==
    /\ pc[p] = "dump"
    /\ pos[p] < Len(PickleDumps(golden_ptns[p]))
    /\ pickle_file' = File(DumpWrite(p))
    /\ pos' = [pos EXCEPT ![p] = @ + 1]
    /\ UNCHANGED <<resVars, golden_wav, temp_files, ffmpeg, pc, entry, golden_ptns, how,
                   warnings, idVars, exc, call, calls, io>>

\* pickle.dump is done: the file is closed and golden_ptns returned.
DumpReturn(p) ==
    /\ pc[p] = "dump"
    /\ pos[p] = Len(PickleDumps(golden_ptns[p]))
    /\ how' = [how EXCEPT ![p] = "build"]
    /\ pc' = [pc EXCEPT ![p] = AfterRead(p)]
    /\ UNCHANGED <<resVars, fsVars, entry, golden_ptns, pos, warnings, idVars, exc, call,
                   calls, io>>

\* A step of read_golden_ptns in p.
ReadStep(p) ==
    \/ OpenMissing(p)
    \/ OpenDenied(p)
    \/ LoadReturn(p)
    \/ LoadEOFError(p)
    \/ LoadUnpicklingError(p)
    \/ RetryEOF(p)
    \/ RetryUnpickling(p)
    \/ BuildNoDir(p)
    \/ BuildBadWav(p)
    \/ Build(p)
    \/ OpenWb(p)
    \/ Dump(p)
    \/ DumpReturn(p)

\* ------------------------------------------------------------------- Init

NoResult == [filepath |-> <<>>, diff_indice |-> <<>>]

NoSeen == [filename |-> <<>>, matched_golden_ptn |-> <<NoKey, 0>>, mrd |-> 0,
           result_type |-> "", read |-> {}]

InitProcs ==
    /\ pc = [p \in Procs |-> "idle"]
    /\ entry = [p \in Procs |-> ""]
    /\ filepath = [p \in Procs |-> <<>>]
    /\ golden_ptns = [p \in Procs |-> <<>>]
    /\ how = [p \in Procs |-> ""]
    /\ pos = [p \in Procs |-> 0]
    /\ warnings = [p \in Procs |-> {}]
    /\ tmp_filepath = [p \in Procs |-> <<>>]
    /\ wave = [p \in Procs |-> [sig |-> 0, call |-> 0]]
    /\ result = [p \in Procs |-> NoResult]
    /\ exc = [p \in Procs |-> ""]
    /\ call = [p \in Procs |-> 0]
    /\ calls = 0
    /\ io = [listdir |-> 0, wavread |-> 0]


\* The target recordings: the path, what ffmpeg makes of the file ("audio": a
\* waveform; "empty": a WAV file without samples; "unreadable": no output) and
\* the samples.
Target(path, k, s) == [path |-> path, kind |-> k, sig |-> s]

Targets ==
    {Target(<<"a", "/", "X", "1">>, "audio", 5),
     Target(<<"b", "/", "X", "1">>, "audio", 6),
     Target(<<"A", "1", "e">>, "empty", 0),
     Target(<<"n", "/", "A", "1", "e">>, "unreadable", 0)}

TargetAt(path) == CHOOSE t \in Targets : t.path = path

TmpPathOf(path) == join(Str_temp, basename(path) \o Str_tmp)

TmpPaths == {TmpPathOf(t.path) : t \in Targets}

NoTmp == [exists |-> FALSE, sig |-> 0, call |-> 0]

InitFiles ==
    /\ golden_wav \in Dirs
    /\ pickle_file \in InitPickles(golden_wav)
    /\ temp_files = [f \in TmpPaths |-> NoTmp]

\* ------------------------------------------------------------- StoreSpec

\* Processes that call read_golden_ptns, against one cache file.
StoreInit ==
    /\ robj = NoResult
    /\ seen = NoSeen
    /\ InitFiles
    /\ ffmpeg = TRUE
    /\ InitProcs

StoreNext == \E p \in Procs : CallReadGoldenPtns(p) \/ ReadStep(p)

StoreSpec == StoreInit /\ [][StoreNext]_vars

\* Every process that is in a call takes its next step in the end.
StoreFair == \A p \in Procs : WF_vars(ReadStep(p))

FairStoreSpec == StoreSpec /\ StoreFair


\* ----------------------------------------------------- televoice_identify

\* The scores ptns_cmp gives in this model.
CmpScores == {500, 3000}

\* ptns_cmp(golden_ptns, target_mfcc, threshold, scan_step, multiproc): the
\* dicts it may return, one score per golden pattern.
ptns_cmp(g, t) ==
    {d \in [1..Len(g) -> Keys(g) \X CmpScores] : \A i \in 1..Len(g) : d[i][1] = g[i][1]}

\* televoice_identify(filepath) is called.
CallIdentify(p) ==
    /\ p \in IdentProcs
    /\ CanCall(p)
    /\ \E t \in Targets : BeginCall(p, "televoice_identify", t.path)
    /\ UNCHANGED <<resVars, fsVars, io>>

\* tmp_filepath = join("temp", basename(filepath) + ".tmp")
TmpFilepath(p) == join(Str_temp, basename(filepath[p]) \o Str_tmp)

\* A mutant of FfmpegNotFound: the FileNotFoundError is passed over and the
\* call goes on to read tmp_filepath.
FfmpegNotFoundPassed(p) ==
    /\ pc[p] = "ffmpeg"
    /\ ~ffmpeg
    /\ tmp_filepath' = [tmp_filepath EXCEPT ![p] = TmpFilepath(p)]
    /\ pc' = [pc EXCEPT ![p] = "wav_read"]
    /\ UNCHANGED <<resVars, fsVars, entry, filepath, storeVars, wave, result,
                   exc, call, calls, io>>

\* subprocess.run raises FileNotFoundError (no ffmpeg): sys.exit(2).
FfmpegNotFound(p) ==
    /\ pc[p] = "ffmpeg"
    /\ ~ffmpeg
    /\ tmp_filepath' = [tmp_filepath EXCEPT ![p] = TmpFilepath(p)]
    /\ pc' = [pc EXCEPT ![p] = "exited"]
    /\ exc' = [exc EXCEPT ![p] = "SystemExit(2)"]
    /\ UNCHANGED <<resVars, fsVars, entry, filepath, storeVars, wave, result,
                   call, calls, io>>

\* ffmpeg -y converts the target and writes tmp_filepath, over any file there.
FfmpegConverts(p) ==
    /\ pc[p] = "ffmpeg"
    /\ ffmpeg
    /\ TargetAt(filepath[p]).kind # "unreadable"
    /\ tmp_filepath' = [tmp_filepath EXCEPT ![p] = TmpFilepath(p)]
    /\ temp_files' = [temp_files EXCEPT
                         ![TmpFilepath(p)] = [exists |-> TRUE,
                                              sig |-> TargetAt(filepath[p]).sig,
                                              call |-> call[p]]]
    /\ pc' = [pc EXCEPT ![p] = "wav_read"]
    /\ UNCHANGED <<resVars, golden_wav, pickle_file, ffmpeg, entry, filepath,
                   storeVars, wave, result, exc, call, calls, io>>

\* ffmpeg cannot read the target: it exits with an error, which
\* subprocess.run (no check=True) ignores, and writes nothing.
FfmpegFails(p) ==
    /\ pc[p] = "ffmpeg"
    /\ ffmpeg
    /\ TargetAt(filepath[p]).kind = "unreadable"
    /\ tmp_filepath' = [tmp_filepath EXCEPT ![p] = TmpFilepath(p)]
    /\ pc' = [pc EXCEPT ![p] = "wav_read"]
    /\ UNCHANGED <<resVars, fsVars, entry, filepath, storeVars, wave, result,
                   exc, call, calls, io>>

\* wav.read(tmp_filepath) raises FileNotFoundError: it propagates.
WavReadNoFile(p) ==
    /\ pc[p] = "wav_read"
    /\ ~temp_files[tmp_filepath[p]].exists
    /\ pc' = [pc EXCEPT ![p] = "raised"]
    /\ exc' = [exc EXCEPT ![p] = "FileNotFoundError"]
    /\ UNCHANGED <<resVars, fsVars, entry, storeVars, idVars, call, calls, io>>

\* (rate, sig) = wav.read(tmp_filepath)
WavRead(p) ==
    /\ pc[p] = "wav_read"
    /\ temp_files[tmp_filepath[p]].exists
    /\ wave' = [wave EXCEPT ![p] = [sig |-> temp_files[tmp_filepath[p]].sig,
                                    call |-> temp_files[tmp_filepath[p]].call]]
    /\ pc' = [pc EXCEPT ![p] = "mfcc"]
    /\ UNCHANGED <<resVars, fsVars, entry, storeVars, filepath, tmp_filepath, result,
                   exc, call, calls, io>>

\* mfcc(sig, ...) raises IndexError on a waveform without samples: it
\* propagates.
MfccRaises(p) ==
    /\ pc[p] = "mfcc"
    /\ wave[p].sig = 0
    /\ pc' = [pc EXCEPT ![p] = "raised"]
    /\ exc' = [exc EXCEPT ![p] = "IndexError"]
    /\ UNCHANGED <<resVars, fsVars, entry, storeVars, idVars, call, calls, io>>

\* target_mfcc = mfcc(sig, ...); result = Result(filepath, ptns_cmp(...), ...)
Compare(p) ==
    /\ pc[p] = "mfcc"
    /\ wave[p].sig # 0
    /\ \E d \in ptns_cmp(golden_ptns[p], mfcc(wave[p].sig)) :
           result' = [result EXCEPT ![p] = [filepath |-> filepath[p], diff_indice |-> d]]
    /\ pc' = [pc EXCEPT ![p] = "remove"]
    /\ UNCHANGED <<resVars, fsVars, entry, storeVars, filepath, tmp_filepath, wave,
                   exc, call, calls, io>>

\* os.remove(tmp_filepath) removes the file; return result.
Remove(p) ==
    /\ pc[p] = "remove"
    /\ temp_files[tmp_filepath[p]].exists
    /\ temp_files' = [temp_files EXCEPT ![tmp_filepath[p]] = NoTmp]
    /\ pc' = [pc EXCEPT ![p] = "returned"]
    /\ UNCHANGED <<resVars, golden_wav, pickle_file, ffmpeg, entry, storeVars, idVars,
                   exc, call, calls, io>>

\* A mutant of RemoveGone: the OSError of os.remove is not caught.
RemoveGoneRaises(p) ==
    /\ pc[p] = "remove"
    /\ ~temp_files[tmp_filepath[p]].exists
    /\ pc' = [pc EXCEPT ![p] = "raised"]
    /\ exc' = [exc EXCEPT ![p] = "FileNotFoundError"]
    /\ UNCHANGED <<resVars, fsVars, entry, storeVars, idVars, call, calls, io>>

\* os.remove(tmp_filepath) raises OSError (no such file): on to its handler.
RemoveGone(p) ==
    /\ pc[p] = "remove"
    /\ ~temp_files[tmp_filepath[p]].exists
    /\ pc' = [pc EXCEPT ![p] = "except_oserror"]
    /\ UNCHANGED <<resVars, fsVars, entry, storeVars, idVars, exc, call, calls, io>>

\* except OSError: pass; return result.
PassReturn(p) ==
    /\ pc[p] = "except_oserror"
    /\ pc' = [pc EXCEPT ![p] = "returned"]
    /\ UNCHANGED <<resVars, fsVars, entry, storeVars, idVars, exc, call, calls, io>>

\* A step of televoice_identify in p, after read_golden_ptns returned.
IdentifyStep(p) ==
    \/ FfmpegNotFound(p)
    \/ FfmpegConverts(p)
    \/ FfmpegFails(p)
    \/ WavReadNoFile(p)
    \/ WavRead(p)
    \/ MfccRaises(p)
    \/ Compare(p)
    \/ Remove(p)
    \/ RemoveGone(p)
    \/ PassReturn(p)

\* ------------------------------------------------------------------- Spec

\* Processes that call televoice_identify, against one temp/ directory.
Init ==
    /\ robj = NoResult
    /\ seen = NoSeen
    /\ InitFiles
    /\ ffmpeg \in BOOLEAN
    /\ InitProcs

Next == \E p \in Procs : CallIdentify(p) \/ ReadStep(p) \/ IdentifyStep(p)

Spec == Init /\ [][Next]_vars


\* ------------------------------------------------------------- ResultSpec

\* The keys, scores and target paths Result objects are made of.
RefKeys == {A1wav, <<"A", "2">>, <<"B">>, B1wav}

Scores == {500, 2000, 2001, 4000, 4001}

ResultPaths == {<<"x", "/", "A", "1", "x">>, <<"B">>, <<"A", "1", "/", "X">>}

\* The non-empty dicts of at most MaxRefs scores.
ScoreMaps ==
    UNION {{d \in [1..n -> RefKeys \X Scores] :
               \A i, j \in 1..n : i # j => d[i][1] # d[j][1]} : n \in 1..MaxRefs}

\* Result("A_sample.wav", {"A": 500, "B": 7000, "C": 8000}, exe_time).
ExampleResult ==
    [filepath |-> <<"A", "_", "s", "a", "m", "p", "l", "e", ".", "w", "a", "v">>,
     diff_indice |-> <<<< <<"A">>, 500 >>, << <<"B">>, 7000 >>, << <<"C">>, 8000 >>>>]

\* A Result(filepath, diff_indice, exe_time) none of whose properties was read.
ResultInit ==
    /\ robj \in [filepath : ResultPaths, diff_indice : ScoreMaps] \cup {ExampleResult}
    /\ seen = NoSeen
    /\ golden_wav = GoodDir
    /\ pickle_file = NoFile
    /\ temp_files = [f \in TmpPaths |-> NoTmp]
    /\ ffmpeg = TRUE
    /\ InitProcs

ReadFilename ==
    /\ seen' = [seen EXCEPT !.filename = filename(robj), !.read = @ \cup {"filename"}]
    /\ UNCHANGED <<robj, fsVars, pc, entry, storeVars, idVars, exc, call, calls, io>>

ReadMatchedGoldenPtn ==
    /\ seen' = [seen EXCEPT !.matched_golden_ptn = matched_golden_ptn(robj),
                            !.read = @ \cup {"matched_golden_ptn"}]
    /\ UNCHANGED <<robj, fsVars, pc, entry, storeVars, idVars, exc, call, calls, io>>

ReadMrd ==
    /\ seen' = [seen EXCEPT !.mrd = mrd(robj), !.read = @ \cup {"mrd"}]
    /\ UNCHANGED <<robj, fsVars, pc, entry, storeVars, idVars, exc, call, calls, io>>

ReadResultType ==
    /\ seen' = [seen EXCEPT !.result_type = result_type(robj),
                            !.read = @ \cup {"result_type"}]
    /\ UNCHANGED <<robj, fsVars, pc, entry, storeVars, idVars, exc, call, calls, io>>

ResultNext == ReadFilename \/ ReadMatchedGoldenPtn \/ ReadMrd \/ ReadResultType

ResultSpec == ResultInit /\ [][ResultNext]_vars

\* ------------------------------------------------------- claims on Result

\* The scores of robj differ by less than 2000 and all exceed 2000, which is
\* max - min < 2000 and min > 2000.
TypicalScores ==
    LET d == robj.diff_indice
    IN /\ \A i, j \in 1..Len(d) : d[i][2] - d[j][2] < 2000
       /\ \A i \in 1..Len(d) : d[i][2] > 2000

\* Strings a and b agree on their first two characters (s[:2] of each).
SameFirstTwo(a, b) ==
    \A i \in 1..2 : /\ (i <= Len(a)) <=> (i <= Len(b))
                    /\ i <= Len(a) => a[i] = b[i]

\* C1: the verdict read from a Result is TYPICAL exactly when max score - min
\* score < 2000 and min score > 2000, whatever the target's filename.
C1_TypicalIffScores ==
    "result_type" \in seen.read => (seen.result_type = "TYPICAL" <=> TypicalScores)

\* C1 witness: a TYPICAL verdict for a target whose filename starts like the
\* matched reference, and so would otherwise compare equal.
C1_Witness ==
    /\ "result_type" \in seen.read
    /\ seen.result_type = "TYPICAL"
    /\ SameFirstTwo(basename(robj.filepath), MinKey(robj.diff_indice))

\* C2 as claimed: without the TYPICAL condition the verdict is MATCH when the
\* first two characters of the target's base filename equal those of the
\* matched reference and MISMATCH otherwise, so one of TYPICAL, MATCH, MISMATCH.
C2_MatchMismatch ==
    "result_type" \in seen.read =>
        /\ seen.result_type \in {"TYPICAL", "MATCH", "MISMATCH"}
        /\ ~TypicalScores =>
               seen.result_type =
                   IF SameFirstTwo(basename(robj.filepath), MinKey(robj.diff_indice))
                   THEN "MATCH" ELSE "MISMATCH"

\* C2 amended: without the TYPICAL condition the verdict is the string TRUE
\* when the first two characters agree and FALSE otherwise, so one of TYPICAL,
\* TRUE, FALSE.
C2_TrueFalse ==
    "result_type" \in seen.read =>
        /\ seen.result_type \in {"TYPICAL", "TRUE", "FALSE"}
        /\ ~TypicalScores =>
               seen.result_type =
                   IF SameFirstTwo(basename(robj.filepath), MinKey(robj.diff_indice))
                   THEN "TRUE" ELSE "FALSE"

\* C2 witness: a verdict FALSE although the target's filename and the matched
\* reference start with the same character.
C2_Witness ==
    /\ "result_type" \in seen.read
    /\ seen.result_type = "FALSE"
    /\ ~TypicalScores
    /\ basename(robj.filepath)[1] = MinKey(robj.diff_indice)[1]

\* C3: the margin is >= 0, the matched reference is a key of the ScoreMap,
\* the score paired with it is that key's score, and no score is below it.
C3_MinByValue ==
    LET d == robj.diff_indice
        m == seen.matched_golden_ptn
    IN /\ "mrd" \in seen.read => seen.mrd >= 0
       /\ "matched_golden_ptn" \in seen.read =>
              /\ \E i \in 1..Len(d) : d[i][1] = m[1] /\ d[i][2] = m[2]
              /\ \A i \in 1..Len(d) : m[2] <= d[i][2]

\* C3 witness: both properties read from a ScoreMap whose first score is not
\* the least and whose least score two references share.
C3_Witness ==
    LET d == robj.diff_indice
    IN /\ {"mrd", "matched_golden_ptn"} \subseteq seen.read
       /\ Len(d) = 3
       /\ d[1][2] > d[2][2]
       /\ d[2][2] = d[3][2]
       /\ seen.matched_golden_ptn[1] = d[2][1]


\* ------------------------------------------- claims on read_golden_ptns

\* d is the library of the directory dir: one item per regular file, keyed by
\* the file's name, holding the fingerprint of its samples.
IsLibraryOf(d, dir) ==
    LET files == {i \in 1..Len(dir.entries) : dir.entries[i].isfile}
    IN /\ Len(d) = Cardinality(files)
       /\ \A i \in files :
              \E j \in 1..Len(d) : /\ d[j][1] = dir.entries[i].name
                                   /\ d[j][2] = mfcc(dir.entries[i].sig)

\* No process is in the handler that lists the directory and writes the file.
NoBuilder == \A q \in Procs : pc[q] \notin {"listdir", "open_wb", "dump"}

\* The cache file holds the whole pickle of the directory's library.
CacheComplete ==
    /\ golden_wav.exists
    /\ ~WavReadFails(golden_wav.entries)
    /\ pickle_file = File(PickleDumps(BuildPtns(Str_golden_wav, golden_wav.entries, <<>>)))

\* C5 as claimed: a call that finds the cache file with zero bytes, no process
\* being about to write it, returns a library in the end.
C5_ZeroByteRecovers ==
    \A p \in Procs :
        (pc[p] = "open_rb" /\ pickle_file = File(<<>>) /\ NoBuilder)
            ~> (pc[p] = "returned" /\ how[p] # "")

\* C6 as claimed: every library read_golden_ptns has returned is the complete
\* library of the reference directory.
C6_OnlyCompleteLibraries ==
    \A p \in Procs : how[p] # "" => IsLibraryOf(golden_ptns[p], golden_wav)

\* C7: once a process that built the library has written the file and
\* returned, every other process that is retrying after an empty or
\* undeserializable read returns a loaded library in the end.
C7_RetryingReadersReturn ==
    \A r \in Procs :
        (/\ \E w \in Procs \ {r} : pc[w] = "returned" /\ how[w] = "build"
         /\ \/ pc[r] \in {"except_eof", "except_unpickling"}
            \/ pc[r] = "open_rb" /\ warnings[r] # {})
            ~> (pc[r] = "returned" /\ how[r] = "load")

\* C7 witness: a process that returned a loaded library after it printed a
\* warning, beside the process that built and wrote it.
C7_Witness ==
    \E w, r \in Procs :
        /\ w # r
        /\ pc[w] = "returned" /\ how[w] = "build"
        /\ pc[r] = "returned" /\ how[r] = "load" /\ warnings[r] # {}

\* C8: while the cache file is complete and no process is building, a step
\* leaves the file as it is, reads nothing of the reference directory, sends
\* no process to build, and a load that returns gives the directory's library.
C8_CompleteCacheReused ==
    [][(CacheComplete /\ NoBuilder) =>
           /\ pickle_file' = pickle_file
           /\ io' = io
           /\ NoBuilder'
           /\ \A p \in Procs :
                  (how[p] = "" /\ how'[p] # "") =>
                      /\ how'[p] = "load"
                      /\ golden_ptns'[p] =
                             BuildPtns(Str_golden_wav, golden_wav.entries, <<>>)]_vars

\* C8 witness: the third call of televoice_identify in one process has loaded
\* the library, and the directory was never listed.
C8_Witness ==
    \E p \in Procs :
        /\ call[p] = 3 /\ calls = 3
        /\ \A q \in Procs \ {p} : call[q] = 0
        /\ how[p] = "load"
        /\ io.listdir = 0

\* C9: a library that was built has one item per regular file of the
\* directory and, when no process is writing, is what the cache file holds;
\* a load from the file a builder persisted gives the builder's library.
C9_BuildPersistReload ==
    [][/\ \A p \in Procs :
              how'[p] = "build" =>
                  /\ IsLibraryOf(golden_ptns'[p], golden_wav')
                  /\ (\A q \in Procs : pc'[q] # "dump") =>
                         pickle_file' = File(PickleDumps(golden_ptns'[p]))
       /\ \A p, q \in Procs :
              (/\ how[p] = "build"
               /\ pickle_file = File(PickleDumps(golden_ptns[p]))
               /\ how[q] = "" /\ how'[q] = "load") =>
                  golden_ptns'[q] = golden_ptns[p]]_vars

\* C9 witness: a call that came after the one that built a two-item library
\* loaded the same library, without a retry.
C9_Witness ==
    \E p, q \in Procs :
        /\ how[p] = "build" /\ how[q] = "load"
        /\ call[q] > call[p]
        /\ warnings[q] = {}
        /\ Len(golden_ptns[p]) = 2
        /\ golden_ptns[q] = golden_ptns[p]

\* ----------------------------------------- claims on televoice_identify

\* C4 as claimed: when a call of televoice_identify has ended (returned,
\* raised, or exited the process), the file it had ffmpeg write is gone.
C4_TempFileRemoved ==
    \A p \in Procs :
        (pc[p] \in {"returned", "raised", "exited"} /\ tmp_filepath[p] # <<>>) =>
            ~(/\ temp_files[tmp_filepath[p]].exists
              /\ temp_files[tmp_filepath[p]].call = call[p])

\* C10 as claimed: two calls of televoice_identify that both had ffmpeg write
\* their temporary file and have not yet removed it use different paths.
C10_DistinctTmpPaths ==
    \A p, q \in Procs :
        (/\ p # q
         /\ pc[p] \in {"wav_read", "mfcc", "remove"}
         /\ pc[q] \in {"wav_read", "mfcc", "remove"}
         /\ TargetAt(filepath[p]).kind # "unreadable"
         /\ TargetAt(filepath[q]).kind # "unreadable") =>
            tmp_filepath[p] # tmp_filepath[q]


\* C11: without ffmpeg on the PATH no call of televoice_identify reads a
\* temporary file, compares or returns a Result; the call that reaches
\* subprocess.run ends the process with exit status 2, writing no file, and
\* the process stays ended.
C11_NoFfmpegExits ==
    [][~ffmpeg =>
           \A p \in Procs :
               /\ pc'[p] \notin {"wav_read", "mfcc", "remove", "returned"}
               /\ wave'[p].call = 0
               /\ result'[p] = NoResult
               /\ (pc[p] = "ffmpeg" /\ pc'[p] # "ffmpeg") =>
                      /\ pc'[p] = "exited"
                      /\ exc'[p] = "SystemExit(2)"
                      /\ temp_files' = temp_files
               /\ pc[p] = "exited" => pc'[p] = "exited"]_vars

\* C11 witness: a process that televoice_identify ended with exit status 2,
\* after read_golden_ptns had returned it a library.
C11_Witness ==
    \E p \in Procs :
        /\ ~ffmpeg
        /\ pc[p] = "exited"
        /\ exc[p] = "SystemExit(2)"
        /\ how[p] # ""
        /\ result[p] = NoResult


\* C12 as claimed: when the golden_wav directory is missing or holds no entry,
\* no call of read_golden_ptns reaches the write of the cache file or returns
\* a library it built; the call fails instead.
C12_NoEmptyLibrary ==
    (~golden_wav.exists \/ golden_wav.entries = <<>>) =>
        \A p \in Procs :
            /\ pc[p] \notin {"open_wb", "dump"}
            /\ how[p] # "build"


\* C13: while the cache file cannot be opened for a reason other than its
\* absence, a call of read_golden_ptns that leaves open(..., 'rb') raises
\* PermissionError (an OSError, which IOError names); no process prints a
\* warning and retries, lists the directory, reads a reference file, returns
\* a library or changes the cache file.
C13_OtherReadErrorPropagates ==
    [][pickle_file.denied =>
           /\ pickle_file' = pickle_file
           /\ io' = io
           /\ \A p \in Procs :
                  /\ pc'[p] \in {"idle", "open_rb", "raised"}
                  /\ how'[p] = ""
                  /\ warnings'[p] = {}
                  /\ (pc[p] = "open_rb" /\ pc'[p] # "open_rb") =>
                         /\ pc'[p] = "raised"
                         /\ exc'[p] = "PermissionError"]_vars

\* C13 witness: a call that raised PermissionError on a cache file that
\* exists, nothing having listed the directory.
C13_Witness ==
    \E p \in Procs :
        /\ pickle_file.exists
        /\ pickle_file.denied
        /\ pc[p] = "raised"
        /\ exc[p] = "PermissionError"
        /\ io.listdir = 0


\* C14: a call of televoice_identify whose temporary file is already gone when
\* os.remove is called catches the error and returns the Result it had
\* computed: no exception is left and neither the Result nor a file changes.
C14_RemoveFailureSuppressed ==
    [][\A p \in Procs :
           /\ (pc[p] = "remove" /\ ~temp_files[tmp_filepath[p]].exists
                   /\ pc'[p] # "remove") =>
                  pc'[p] = "except_oserror"
           /\ pc'[p] = "except_oserror" =>
                  /\ result'[p] # NoResult
                  /\ result'[p].filepath = filepath'[p]
                  /\ exc'[p] = ""
           /\ (pc[p] = "except_oserror" /\ pc'[p] # "except_oserror") =>
                  /\ pc'[p] = "returned"
                  /\ result'[p] = result[p]
                  /\ exc'[p] = ""
                  /\ temp_files' = temp_files]_vars

\* C14 witness: a call in the handler of os.remove's OSError, its Result
\* computed and its temporary file absent.
C14_Witness ==
    \E p \in Procs :
        /\ pc[p] = "except_oserror"
        /\ result[p] # NoResult
        /\ ~temp_files[tmp_filepath[p]].exists


\* C15 as claimed: for Result("A_sample.wav", {"A": 500, "B": 7000, "C": 8000})
\* the margin is 7500, the matched reference is "A" and the verdict is MATCH.
C15_ExampleMatch ==
    (robj = ExampleResult
         /\ {"mrd", "matched_golden_ptn", "result_type"} \subseteq seen.read) =>
        /\ seen.mrd = 7500
        /\ seen.matched_golden_ptn[1] = <<"A">>
        /\ seen.result_type = "MATCH"

\* C15 amended: for that Result the margin is 7500, the matched reference is
\* "A" with score 500, and the verdict is FALSE: the first two characters of
\* the filename, "A_", are not the identifier "A".
C15_ExampleFalse ==
    (robj = ExampleResult
         /\ {"mrd", "matched_golden_ptn", "result_type"} \subseteq seen.read) =>
        /\ seen.mrd = 7500
        /\ seen.matched_golden_ptn = << <<"A">>, 500 >>
        /\ seen.result_type = "FALSE"

\* C15 witness: the three properties of that Result have been read and the
\* verdict read is FALSE.
C15_Witness ==
    /\ robj = ExampleResult
    /\ {"mrd", "matched_golden_ptn", "result_type"} \subseteq seen.read
    /\ seen.mrd = 7500
    /\ seen.result_type = "FALSE"


\* The states of the while loop that reads the cache file.
LoopStates == {"open_rb", "except_eof", "except_unpickling"}

\* The cache file exists, may be opened, and pickle.load of it raises.
CacheUnloadable ==
    /\ pickle_file.exists
    /\ ~pickle_file.denied
    /\ PickleLoads(pickle_file.data).exc # ""

\* C16: a step of read_golden_ptns that finds the cache file present but
\* empty or not unpicklable goes to a handler that only prints a warning and
\* opens the file again; such steps raise nothing, return nothing, list and
\* read no directory or reference file and leave the cache file as it is.
\* The retry has no counter: it is enabled whenever the handler is reached.
\* The loop is left only with a loaded library, for the handler of an absent
\* file, or with the error of a file that cannot be opened.
C16_RetryOnly ==
    [][\A p \in Procs :
           /\ (pc[p] = "open_rb" /\ CacheUnloadable /\ pc'[p] # "open_rb") =>
                  /\ pc'[p] = (IF PickleLoads(pickle_file.data).exc = "EOFError"
                               THEN "except_eof" ELSE "except_unpickling")
                  /\ pickle_file' = pickle_file
                  /\ io' = io
                  /\ exc'[p] = ""
                  /\ how'[p] = ""
                  /\ golden_ptns'[p] = <<>>
           /\ pc[p] \in {"except_eof", "except_unpickling"} =>
                  /\ ENABLED (RetryEOF(p) \/ RetryUnpickling(p))
                  /\ pc'[p] # pc[p] =>
                         /\ pc'[p] = "open_rb"
                         /\ warnings'[p] # {}
                         /\ pickle_file' = pickle_file
                         /\ io' = io
                         /\ exc'[p] = ""
                         /\ how'[p] = ""
           /\ (pc[p] \in LoopStates /\ pc'[p] \notin LoopStates) =>
                  /\ pc[p] = "open_rb"
                  /\ ~CacheUnloadable
                  /\ \/ /\ ~pickle_file.exists
                        /\ pc'[p] = "listdir"
                     \/ /\ pickle_file.denied
                        /\ pc'[p] = "raised"
                     \/ /\ pickle_file.exists
                        /\ how'[p] = "load"
                        /\ pc'[p] = "returned"]_vars

\* C16 witness: a call that printed the warning of an empty file, opened the
\* file again and is in the handler of EOFError once more, the file still
\* there with zero bytes.
C16_Witness ==
    \E p \in Procs :
        /\ pc[p] = "except_eof"
        /\ "is empty" \in warnings[p]
        /\ pickle_file = File(<<>>)


\* The names of the regular files of the golden_wav directory.
RegularFileNames ==
    {golden_wav.entries[i].name :
         i \in {j \in 1..Len(golden_wav.entries) : golden_wav.entries[j].isfile}}

\* The dicts a call of read_golden_ptns has built: under way to the cache
\* file, or returned.
BuiltPtns ==
    {golden_ptns[p] : p \in {q \in Procs : pc[q] \in {"open_wb", "dump"} \/ how[q] = "build"}}

\* C17 as claimed: every key of a library that read_golden_ptns built is the
\* name of a regular file of golden_wav with its extension removed, and the
\* library has one key for each regular file.
C17_KeysWithoutExtension ==
    \A d \in BuiltPtns :
        /\ \A k \in Keys(d) : \E n \in RegularFileNames : k = StripExt(n)
        /\ Len(d) = Cardinality(RegularFileNames)

\* C17 amended: every key of a library that read_golden_ptns built is the
\* whole name, extension included, of a regular file of golden_wav; every
\* regular file has its key, and the library has one item for each.
C17_KeysAreFileNames ==
    \A d \in BuiltPtns :
        /\ Keys(d) = RegularFileNames
        /\ Len(d) = Cardinality(RegularFileNames)

\* C17 witness: a returned library built from a directory with two regular
\* files and a subdirectory, with the key A1.wav.
C17_Witness ==
    \E p \in Procs :
        /\ how[p] = "build"
        /\ Len(golden_wav.entries) > Len(golden_ptns[p])
        /\ Len(golden_ptns[p]) = 2
        /\ A1wav \in Keys(golden_ptns[p])


\* C18: a call of read_golden_ptns that found no cache file and fails while
\* it lists the directory or reads a reference file raises that error to its
\* caller without having opened the cache file: the step leaves the file as
\* it was, and whenever a call has raised the error of a reference file the
\* cache file is absent.
C18_FailedBuildLeavesNoFile ==
    [][\A p \in Procs :
           /\ (pc[p] = "listdir" /\ pc'[p] = "raised") =>
                  /\ exc'[p] \in {"ValueError", "FileNotFoundError"}
                  /\ how'[p] = ""
                  /\ pickle_file' = pickle_file
                  /\ ~pickle_file'.exists
           /\ exc'[p] = "ValueError" => ~pickle_file'.exists]_vars

\* C18 witness: a call that raised the ValueError of the second regular file,
\* the first having been read, and the cache file is absent.
C18_Witness ==
    \E p \in Procs :
        /\ pc[p] = "raised"
        /\ exc[p] = "ValueError"
        /\ io.wavread >= 2
        /\ ~pickle_file.exists


\* C19 as claimed: a call of televoice_identify whose target ffmpeg cannot
\* read, so that ffmpeg writes nothing, reads no temporary file at all, and
\* every call that returned a Result had read the file that ffmpeg wrote
\* during that same call.
C19_OwnArtifactOnly ==
    \A p \in Procs :
        /\ (filepath[p] # <<>> /\ TargetAt(filepath[p]).kind = "unreadable") =>
               wave[p].call = 0
        /\ (pc[p] = "returned" /\ result[p] # NoResult) =>
               wave[p].call = call[p]

=============================================================================
